---- MODULE Spec2Model ----
(***************************************************************************)
(* The resumable paginated fetcher of the Notion habit dashboard:         *)
(* exponential_backoff, smart_retry, the progress file, get_notion_data,  *)
(* generate_visualization and process_data of src/Visualization.py, with  *)
(* the generate_visualization / process_data revision of src/test.py      *)
(* (the one that resumes from the progress file) as a second module.      *)
(*                                                                         *)
(* One behaviour exercises one scenario, drawn by Init:                    *)
(*   "app"                 the Streamlit script driving a fetch run        *)
(*   "smart_retry"         smart_retry around an arbitrary operation       *)
(*   "exponential_backoff" the backoff delay for an arbitrary attempt      *)
(*   "process_data"        the aggregation of an arbitrary record list     *)
(*   "gather"              process_data with its lookups completing in     *)
(*                         any order                                       *)
(* Time is counted in tenths of a second (TicksPerSecond).                 *)
(***************************************************************************)
EXTENDS Integers, Sequences, FiniteSets, TLC

VARIABLES
    scenario,       \* which entry point this behaviour exercises
    module,         \* "Visualization" (src/Visualization.py) or "test" (src/test.py)
    remote,         \* how the remote database answers page queries
    progress_file,  \* PROGRESS_FILE on disk: Absent or a checkpoint
    csv_file,       \* the exported table on disk: Absent or a table
    session_state,  \* st.session_state of the running Streamlit session
    pc,             \* position of the fetch run
    gv,             \* locals of generate_visualization
    nd,             \* locals of get_notion_data
    rt,             \* the smart_retry invocation in progress
    bo,             \* the exponential_backoff call of the backoff scenario
    pd,             \* the process_data call of the aggregation scenario
    obs             \* observations of the run (what a test harness records)

vars == <<scenario, module, remote, progress_file, csv_file, session_state,
          pc, gv, nd, rt, bo, pd, obs>>

(***************************************************************************)
(* Program constants                                                       *)
(***************************************************************************)
MAX_RETRIES == 30
INITIAL_RETRY_DELAY == 5
MAX_RETRY_DELAY == 300
page_size == 5
page_limit == 600
pause_threshold == 400
TicksPerSecond == 10

(***************************************************************************)
(* Bounds of the model                                                     *)
(***************************************************************************)
MaxIds == 2            \* record ids 0..MaxIds-1 an arbitrary remote may deliver
MaxPageLen == 2        \* records in one response of an arbitrary remote
MaxCursor == 1         \* continuation tokens 1..MaxCursor of an arbitrary remote
ChainPages == 3        \* pages of the well-behaved (chain) remote
ChainPageLen == 2      \* records on each of its pages
UnlimitedPages == 122  \* pages the unlimited remote serves before the model stops
JitterSteps == 2       \* random.uniform draws: jitter = k/JitterSteps of its range
MaxAttemptArg == 12    \* attempt arguments of the backoff scenario
MaxRecords == 3        \* records handed to process_data in its scenario
MaxMins == 2           \* measures 1..MaxMins of those records
MaxTasks == 3          \* records handed to process_data in the gather scenario

\* Python's None where an object is expected, where a string is expected,
\* where a cursor is expected and where a number is expected
None == [ok |-> FALSE]
NoName == "None"
NoCursor == 0
NoNumber == -1

Min(a, b) == IF a <= b THEN a ELSE b

RECURSIVE SumSeq(_)
SumSeq(s) == IF s = <<>> THEN 0 ELSE Head(s) + SumSeq(Tail(s))

Range(s) == {s[i] : i \in 1..Len(s)}

\* Python's list comprehension [x for x in s if x not in seen]
RECURSIVE NotIn(_, _)
NotIn(s, seen) ==
    IF s = <<>> THEN <<>>
    ELSE IF Head(s) \in seen THEN NotIn(Tail(s), seen)
         ELSE <<Head(s)>> \o NotIn(Tail(s), seen)

(***************************************************************************)
(* exponential_backoff                                                     *)
(***************************************************************************)
\* INITIAL_RETRY_DELAY * 2^attempt, doubling stopped once the product has
\* passed MAX_RETRY_DELAY (Python integers do not overflow, TLC's do; the
\* min below is the same for both).
RECURSIVE Doubled(_)
Doubled(attempt) ==
    IF attempt = 0 THEN INITIAL_RETRY_DELAY
    ELSE CHOOSE d \in {IF p >= MAX_RETRY_DELAY THEN p ELSE 2 * p :
                           p \in {Doubled(attempt - 1)}} : TRUE

\* (mutant) the delay without the min(MAX_RETRY_DELAY, ...) cap
BackoffDelayUncapped(attempt) == Doubled(attempt)

\* delay = min(MAX_RETRY_DELAY, INITIAL_RETRY_DELAY * (2 ** attempt)), seconds
BackoffDelay(attempt) == Min(MAX_RETRY_DELAY, Doubled(attempt))

\* jitter = random.uniform(0, 0.1 * delay) for the draw k of 0..JitterSteps, in ticks
BackoffJitter(delay, k) == (delay * TicksPerSecond * k) \div (10 * JitterSteps)

\* total_delay = delay + jitter, in ticks: what asyncio.sleep is called with
exponential_backoff(attempt, k) ==
    LET delay == BackoffDelay(attempt)
    IN  delay * TicksPerSecond + BackoffJitter(delay, k)

(***************************************************************************)
(* Records and the remote database                                         *)
(***************************************************************************)
\* A record id stands for the page object the remote returns for it.  Record 0
\* is a page whose Name property has an empty title list.
NoTitleId == 0
Ids == 0..(MaxIds - 1)
Cursors == 1..MaxCursor
ParentIds == {"pA", "pB"}

\* the page object of a record id: its Parent Hab relation, its Total min Par
\* formula number and the plain_text of its Name title ("" for an empty list)
RecordOf(id) ==
    [id     |-> id,
     parent |-> IF id % 3 = 1 THEN "pA" ELSE IF id % 3 = 2 THEN "pB" ELSE NoName,
     mins   |-> 1 + (id % 2),
     title  |-> IF id = NoTitleId THEN "" ELSE "r"]

\* the query asks for sorted results: a page lists its records in one order
\* (here by id), possibly with repetitions
Sorted(s) == \A i \in 1..(Len(s) - 1) : s[i] <= s[i + 1]

RECURSIVE SeqsUpTo(_, _)
SeqsUpTo(S, n) ==
    IF n = 0 THEN {<<>>}
    ELSE LET shorter == SeqsUpTo(S, n - 1)
         IN  shorter \cup {Append(s, x) : s \in {t \in shorter : Len(t) = n - 1}, x \in S}

\* page i of a database that holds records 1, 2, 3, ... in pages of n
DbPage(i, n) == [k \in 1..n |-> n * (i - 1) + k]
PageIndex(cursor) == IF cursor = NoCursor THEN 1 ELSE cursor

\* the result lists and the bodies an arbitrary remote may answer with
AnyPages == {t \in SeqsUpTo(Ids, MaxPageLen) : Sorted(t)}
AnyResponses ==
    {[ok |-> TRUE, results |-> s, has_more |-> h, next_cursor |-> c] :
        s \in AnyPages, h \in BOOLEAN, c \in Cursors \cup {NoCursor}}

\* The JSON bodies the query endpoint may answer a request with.
\*   "any"        anything: repeated ids, any has_more, any next_cursor
\*   "stagnant"   one record, then only records already seen, always with a
\*                next cursor
\*   "chain"      a finite database served page by page
\*   "unlimited"  an endless database of unique records, page_size per page
Responses(mode, cursor, seen) ==
    CASE mode = "any" -> AnyResponses
      [] mode = "stagnant" ->
           {[ok |-> TRUE, results |-> s, has_more |-> TRUE, next_cursor |-> c] :
               s \in IF seen = {} THEN {DbPage(1, 1)}
                     ELSE {t \in AnyPages : Range(t) \subseteq seen},
               c \in Cursors}
      [] mode = "chain" ->
           LET i == PageIndex(cursor)
           IN  {[ok |-> TRUE, results |-> DbPage(i, ChainPageLen),
                 has_more |-> i < ChainPages,
                 next_cursor |-> IF i < ChainPages THEN i + 1 ELSE NoCursor]}
      [] mode = "unlimited" ->
           LET i == PageIndex(cursor)
           IN  IF i > UnlimitedPages THEN {}
               ELSE {[ok |-> TRUE, results |-> DbPage(i, page_size),
                      has_more |-> TRUE,
                      next_cursor |-> i + 1]}

\* what can come back from session.request: a 200 with a JSON body, a 200 with
\* another content type, an error status, or no response at all
HttpFailures == {"text", "429", "504", "timeout"}
Exchanges(mode, cursor, seen) ==
    {[kind |-> "json", body |-> r] : r \in Responses(mode, cursor, seen)}
    \cup (IF mode \in {"any", "chain"}
          THEN {[kind |-> k, body |-> None] : k \in HttpFailures}
          ELSE {})

(***************************************************************************)
(* NotionDataVisualizer.fetch                                              *)
(***************************************************************************)
\* The outcome of one call of an operation: it returns a value or raises.
Return(v) == [kind |-> "return", value |-> v, class |-> NoName]
Raise(c) == [kind |-> "raise", value |-> None, class |-> c]

\* raise_for_status and everything else sit inside try/except Exception, which
\* reports with st.error and returns None; a non-JSON body returns None too.
fetch(http) ==
    IF http.kind = "json" THEN Return(http.body) ELSE Return(None)

(***************************************************************************)
(* smart_retry                                                             *)
(***************************************************************************)
\* what an arbitrary wrapped operation may do on one call: raise
\* ClientResponseError (429, 504, 502, another status), asyncio.TimeoutError,
\* another Exception, or return (a payload or None)
RaiseClasses == {"429", "504", "502", "status", "timeout", "other"}
Payload == [ok |-> TRUE, results |-> <<>>, has_more |-> FALSE, next_cursor |-> NoCursor]
StubOutcomes == {Raise(c) : c \in RaiseClasses} \cup {Return(Payload), Return(None)}
\* what a harness around the operation records of one call: the class it
\* raised, or that it returned the payload or None
StubDid(o) ==
    IF o.kind = "raise" THEN o.class ELSE IF o.value.ok THEN "payload" ELSE "nothing"

RtIdle ==
    [func |-> NoName, state |-> "idle", attempt |-> 0, calls |-> 0, sleeps |-> 0,
     all429 |-> TRUE, result |-> None, raised |-> NoName, log |-> NoName, slept |-> 0]

\* for attempt in range(MAX_RETRIES): the first iteration
SmartRetryStart(func) == [RtIdle EXCEPT !.func = func, !.state = "call"]

\* the logging call of the except clause that catches class c
LogLevel(c) ==
    IF c \in {"504", "429"} THEN "warning" ELSE "error"

\* (mutant) a call that returns None counts as a failed attempt
SmartRetryReturnRetryingNone(r, v) ==
    IF v.ok
    THEN [r EXCEPT !.state = "returned", !.calls = @ + 1, !.result = v]
    ELSE [r EXCEPT !.state = "backoff", !.calls = @ + 1]

\* return await func(*args, **kwargs)
SmartRetryReturn(r, v) ==
    [r EXCEPT !.state = "returned", !.calls = @ + 1, !.result = v]

\* (mutant) a failure that is no rate limit, gateway timeout or timeout is
\* given up on at once
SmartRetryExceptGivingUp(r, c) ==
    [r EXCEPT !.state = IF c \in {"429", "504", "timeout"} THEN "backoff" ELSE "raised",
              !.calls = @ + 1, !.raised = c,
              !.log = LogLevel(c), !.all429 = @ /\ c = "429"]

\* an except clause: log, then await exponential_backoff(attempt)
SmartRetryExcept(r, c) ==
    [r EXCEPT !.state = "backoff", !.calls = @ + 1, !.raised = c,
              !.log = LogLevel(c), !.all429 = @ /\ c = "429"]

\* (mutant) the backoff is given the one-based number of the attempt
SmartRetryNextOneBased(r, k) ==
    [r EXCEPT !.sleeps = @ + 1, !.slept = exponential_backoff(r.attempt + 1, k),
              !.attempt = @ + 1,
              !.state = IF r.attempt + 1 < MAX_RETRIES THEN "call" ELSE "raised"]

\* the backoff sleep is over: next iteration, or the loop is exhausted and
\* raise Exception("Failed after MAX_RETRIES retries")
SmartRetryNext(r, k) ==
    [r EXCEPT !.sleeps = @ + 1, !.slept = exponential_backoff(r.attempt, k),
              !.attempt = @ + 1,
              !.state = IF r.attempt + 1 < MAX_RETRIES THEN "call" ELSE "raised"]

(***************************************************************************)
(* get_page_name and process_data                                          *)
(***************************************************************************)
\* The display names of the parent pages; get_page_name keeps a name only if
\* it contains '*'.
PageName(parent_id) == IF parent_id = "pA" THEN "A*" ELSE "B*"
Starred == {"A*", "B*"}

\* what the GET of a parent page may come back with: its page object, the page
\* object of a parent whose name carries no '*', or a failed request
LookupKinds == {"json", "plain", "failed"}
Lookup(kind, parent_id) ==
    CASE kind = "json"   -> [kind |-> "json", body |-> [ok |-> TRUE, name |-> PageName(parent_id)]]
      [] kind = "plain"  -> [kind |-> "json", body |-> [ok |-> TRUE, name |-> "C"]]
      [] kind = "failed" -> [kind |-> "404", body |-> None]

\* page_data = await self.fetch(session, url); the name if '*' is in it, else "Unknown"
get_page_name(http) ==
    LET page_data == fetch(http).value
    IN  IF page_data.ok /\ page_data.name \in Starred THEN page_data.name ELSE "Unknown"

\* A Python dict as the sequence of its items in insertion order.
HasKey(d, k) == \E i \in 1..Len(d) : d[i].key = k
KeyIndex(d, k) == CHOOSE i \in 1..Len(d) : d[i].key = k
\* d[k] = v
DictSet(d, k, v) ==
    IF HasKey(d, k) THEN [d EXCEPT ![KeyIndex(d, k)].value = v]
    ELSE Append(d, [key |-> k, value |-> v])
\* if k not in d: d[k] = 0;  d[k] += v
DictAdd(d, k, v) ==
    IF HasKey(d, k) THEN [d EXCEPT ![KeyIndex(d, k)].value = @ + v]
    ELSE Append(d, [key |-> k, value |-> v])

\* .get(TOTAL_MINUTES_FOR_PARENT_HABIT, {}).get('formula', {}).get('number', 0)
TotalMins(result) == IF result.mins = NoNumber THEN 0 ELSE result.mins

\* One pass of the first loop of process_data, for the record result, from
\* the state st = [categories, tasks, total_mins, error]: a record with a
\* parent relation appends a lookup task, a record without one is entered
\* into categories (under its own name in Visualization.py, under 'No Parent'
\* in test.py). total_mins is left holding the measure of this record.
CollectStep(mod, result, st) ==
    LET total_mins == TotalMins(result)
    IN  IF st.error # NoName THEN st
        ELSE IF result.parent # NoName
        THEN [st EXCEPT !.tasks = Append(@, result.parent),
                        !.total_mins = total_mins]
        ELSE IF mod = "test"
        THEN [st EXCEPT !.categories = DictAdd(@, "No Parent", total_mins),
                        !.total_mins = total_mins]
        ELSE IF result.title = ""
        THEN [st EXCEPT !.error = "IndexError", !.total_mins = total_mins]
        ELSE [st EXCEPT !.categories = DictSet(@, result.title, total_mins),
                        !.total_mins = total_mins]

\* The first loop, for page in data['results'], after its first n passes.
RECURSIVE CollectLoop(_, _, _)
CollectLoop(mod, results, n) ==
    IF n = 0
    THEN [categories |-> <<>>, tasks |-> <<>>, total_mins |-> 0, error |-> NoName]
    ELSE CHOOSE next \in {CollectStep(mod, results[n], st) :
                            st \in {CollectLoop(mod, results, n - 1)}} : TRUE

\* The second loop, for parent_name in parent_names:
\* categories[parent_name] += total_mins, after its first n passes.
RECURSIVE SumLoop(_, _, _, _)
SumLoop(parent_names, categories, total_mins, n) ==
    IF n = 0 THEN categories
    ELSE CHOOSE next \in {DictAdd(c, parent_names[n], total_mins) :
                            c \in {SumLoop(parent_names, categories, total_mins, n - 1)}} : TRUE

\* (mutant) an item is put before the items of equal value
RECURSIVE InsertDescBeforeEqual(_, _)
InsertDescBeforeEqual(sorted, item) ==
    IF sorted = <<>> THEN <<item>>
    ELSE IF Head(sorted).value > item.value
         THEN <<Head(sorted)>> \o InsertDescBeforeEqual(Tail(sorted), item)
         ELSE <<item>> \o sorted

\* sorted(items, key=lambda x: x[1], reverse=True): stable insertion into a
\* list kept in descending order of value
RECURSIVE InsertDesc(_, _)
InsertDesc(sorted, item) ==
    IF sorted = <<>> THEN <<item>>
    ELSE IF Head(sorted).value >= item.value
         THEN <<Head(sorted)>> \o InsertDesc(Tail(sorted), item)
         ELSE <<item>> \o sorted

RECURSIVE SortedUpTo(_, _)
SortedUpTo(items, n) ==
    IF n = 0 THEN <<>>
    ELSE CHOOSE next \in {InsertDesc(sorted, items[n]) :
                            sorted \in {SortedUpTo(items, n - 1)}} : TRUE
SortedDesc(items) == SortedUpTo(items, Len(items))

\* process_data after the first loop left st: the lookups are gathered, the
\* second loop adds up, the items are sorted into the rows of the DataFrame.
AfterGather(st, parent_names) ==
        [error |-> st.error,
         rows  |-> IF st.error # NoName THEN <<>>
                   ELSE CHOOSE rows \in
                          {SortedDesc(categories) :
                             categories \in {SumLoop(parent_names, st.categories,
                                                     st.total_mins, Len(st.tasks))}} : TRUE,
         lookups |-> Len(st.tasks)]
AfterCollect(st, lookups) ==
    CHOOSE out \in {AfterGather(st, parent_names) :
                      parent_names \in {[i \in 1..Len(st.tasks) |->
                                           get_page_name(lookups[st.tasks[i]])]}} : TRUE

\* (mutant) the names in the order in which the lookups completed
GatheredAsCompleted(names, order) == [i \in 1..Len(order) |-> names[order[i]]]

\* parent_names = await asyncio.gather(*tasks): the results in the order of
\* the awaitables, whatever the order in which they completed
Gathered(names, order) == names

\* process_data(data) with lookups[parent_id] the exchange each GET of that
\* parent page ends with: the rows of the DataFrame, or the exception raised
process_data(mod, results, lookups) ==
    CHOOSE out \in {AfterCollect(st, lookups) :
                      st \in {CollectLoop(mod, results, Len(results))}} : TRUE

(***************************************************************************)
(* The progress file                                                       *)
(***************************************************************************)
Absent == [exists |-> FALSE]
DefaultProgress ==
    [exists |-> TRUE, start_cursor |-> NoCursor, total_retrieved |-> 0,
     queried_page_ids |-> {}]

\* the dict handed to save_progress; list(queried_page_ids) is kept as the set
\* it is turned back into by every reader
Progress(start_cursor, total_retrieved, queried_page_ids) ==
    [exists |-> TRUE, start_cursor |-> start_cursor,
     total_retrieved |-> total_retrieved, queried_page_ids |-> queried_page_ids]

\* The file of a save_progress call that did not come to its end: open(..., 'w')
\* has emptied it and json.dump has written nothing or a part of the document.
\* No field can be read from it.
Torn ==
    [exists |-> TRUE, start_cursor |-> NoCursor, total_retrieved |-> NoNumber,
     queried_page_ids |-> {}]
\* json.load(file) raises JSONDecodeError
LoadRaises(file) == file = Torn

\* (mutant) the file is never read
LoadProgressDefaults(file) == DefaultProgress

\* (mutant) the new checkpoint's ids are added to those already in the file
SaveProgressAppending(file, progress) ==
    IF file.exists
    THEN [progress EXCEPT !.queried_page_ids = @ \cup file.queried_page_ids]
    ELSE progress

\* load_progress(): the file's content, or the defaults when there is no file
load_progress(file) == IF file.exists THEN file ELSE DefaultProgress

\* save_progress(progress): the file after open(PROGRESS_FILE, 'w') and json.dump
save_progress(file, progress) == progress

(***************************************************************************)
(* get_notion_data                                                         *)
(***************************************************************************)
GvIdle ==
    [start_cursor |-> NoCursor, total_retrieved |-> 0, queried_page_ids |-> {},
     all_results |-> <<>>, last_total_retrieved |-> 0]

NdIdle ==
    [has_more |-> FALSE, results |-> <<>>, page_count |-> 0,
     queried_page_ids |-> {}, start_cursor |-> NoCursor]

\* (mutant) every call counts and collects ids from nothing
NdEnterForgetting(start_cursor, total_retrieved, queried_page_ids) ==
    [has_more |-> TRUE, results |-> <<>>, page_count |-> 0,
     queried_page_ids |-> {}, start_cursor |-> start_cursor]

\* the locals of get_notion_data(start_cursor, total_retrieved, queried_page_ids)
\* before its while loop
NdEnter(start_cursor, total_retrieved, queried_page_ids) ==
    [has_more |-> TRUE, results |-> <<>>, page_count |-> total_retrieved,
     queried_page_ids |-> queried_page_ids, start_cursor |-> start_cursor]

\* (mutant) the fetched page is taken whole
NewResultsUnfiltered(response, queried_page_ids) == response.results

\* new_results = [page for page in fetched_results if page['id'] not in queried_page_ids]
NewResults(response, queried_page_ids) == NotIn(response.results, queried_page_ids)

\* the page_names comprehension indexes title[0] of every new page
PageNamesRaise(new_results) ==
    \E i \in 1..Len(new_results) : RecordOf(new_results[i]).title = ""

\* (mutant) the merged page is not checkpointed before the loop goes on
AfterMergeNoSave(new_results) ==
    IF PageNamesRaise(new_results) THEN "gv_data" ELSE "nd_sleep"

\* (mutant) an exception in the loop body does not end the loop
AfterMergeGoingOn(new_results) == "nd_save"

\* where the loop body goes once a page has been merged: to save_progress,
\* unless the page_names comprehension raised into the except clause (break)
AfterMerge(new_results) ==
    IF PageNamesRaise(new_results) THEN "gv_data" ELSE "nd_save"

\* (mutant) a page without a new record leaves the cursor where it was
HandleResponseKeepingCursor(n, r) ==
    IF r.state = "raised"
    THEN [nd |-> n, next |-> "gv_data", merged |-> FALSE]
    ELSE IF ~r.result.ok
    THEN [nd |-> [n EXCEPT !.has_more = FALSE], next |-> "nd_while", merged |-> FALSE]
    ELSE LET response == r.result
             new_results == NotIn(response.results, n.queried_page_ids)
         IN  IF new_results = <<>>
             THEN [nd |-> n,
                   next |-> IF response.next_cursor = NoCursor THEN "gv_data" ELSE "nd_while",
                   merged |-> FALSE]
             ELSE [nd |-> [n EXCEPT
                             !.page_count = @ + Len(new_results),
                             !.results = @ \o new_results,
                             !.queried_page_ids = @ \cup Range(new_results),
                             !.has_more = response.has_more,
                             !.start_cursor = response.next_cursor],
                   next |-> IF PageNamesRaise(new_results) THEN "gv_data" ELSE "nd_save",
                   merged |-> TRUE]

\* The body of the while loop from the return of smart_retry on: r is the
\* smart_retry invocation that has ended.  Gives the locals, where control
\* goes next and whether a page was merged.
HandleResponse(n, r) ==
    IF r.state = "raised"
    THEN [nd |-> n, next |-> "gv_data", merged |-> FALSE]
    ELSE IF ~r.result.ok
    THEN [nd |-> [n EXCEPT !.has_more = FALSE], next |-> "nd_while", merged |-> FALSE]
    ELSE LET response == r.result
             new_results == NewResults(response, n.queried_page_ids)
         IN  IF new_results = <<>>
             THEN [nd |-> [n EXCEPT !.start_cursor = response.next_cursor],
                   next |-> IF response.next_cursor = NoCursor THEN "gv_data" ELSE "nd_while",
                   merged |-> FALSE]
             ELSE [nd |-> [n EXCEPT
                             !.page_count = @ + Len(new_results),
                             !.results = @ \o new_results,
                             !.queried_page_ids = @ \cup Range(new_results),
                             !.has_more = response.has_more,
                             !.start_cursor = response.next_cursor],
                   next |-> AfterMerge(new_results),
                   merged |-> TRUE]

(***************************************************************************)
(* generate_visualization                                                  *)
(***************************************************************************)
\* the locals before the while loop: test.py starts from load_progress(),
\* Visualization.py from the defaults
GvEnter(mod, file) ==
    LET progress == IF mod = "test" THEN load_progress(file) ELSE DefaultProgress
    IN  [start_cursor |-> progress.start_cursor,
         total_retrieved |-> progress.total_retrieved,
         queried_page_ids |-> progress.queried_page_ids,
         all_results |-> <<>>, last_total_retrieved |-> 0]

\* (mutant) the ids get_notion_data returned are not taken over
GvTakeDroppingIds(g, n) ==
    [g EXCEPT !.all_results = @ \o n.results,
              !.total_retrieved = n.page_count,
              !.start_cursor = n.start_cursor]

\* the loop body after get_notion_data has returned n, up to the stall test
GvTake(g, n) ==
    [g EXCEPT !.all_results = @ \o n.results,
              !.total_retrieved = n.page_count,
              !.queried_page_ids = n.queried_page_ids,
              !.start_cursor = n.start_cursor]

\* if total_retrieved == last_total_retrieved: break
GvStalled(g) == g.total_retrieved = g.last_total_retrieved

\* if not start_cursor or total_retrieved >= page_limit: break
GvFinished(g) == g.start_cursor = NoCursor \/ g.total_retrieved >= page_limit

\* await asyncio.sleep(30) between 400 and the page limit
GvPauses(g) == g.total_retrieved >= pause_threshold /\ g.total_retrieved < page_limit

(***************************************************************************)
(* State                                                                   *)
(***************************************************************************)
\* st.session_state as the script initialises it
SessionDefaults == [show_loader |-> FALSE, csv_checked |-> TRUE, data_table |-> None]

\* The rendering layer of Visualization.py shows a table when the session
\* holds one or when csv_checked is set and data/habits.csv exists.
Rendered(session, csv) == session.data_table.ok \/ (session.csv_checked /\ csv.exists)

\* nothing observed yet: began is the progress file as the run found it
\* (remembered until the run merges a page), merged the checkpoint of the
\* last page the run merged, cleared that clear_progress_and_regenerate has
\* been called since data/habits.csv was last written, aggregated that
\* process_data returned, status what the script told the user, lost the
\* cursor of the last page request that ended without a response (until the
\* run merges a page again),
\* stale how many page responses in a row held no new record (counted to 2),
\* rested that asyncio.sleep(1) has run since the last page response,
\* ahead how many page responses the run has taken since save_progress last
\* ran (counted to 2),
\* answer what the last page response held: whether any of its records was
\* not in the seen ids, and the cursor it offered,
\* due the cursor the run started from and, once a page response has come,
\* the next_cursor of the last one
ObsIdle ==
    [resumed |-> FALSE, failed |-> FALSE, lost |-> None, http |-> NoName,
     answer |-> None, stale |-> 0, rested |-> FALSE, ahead |-> 0, due |-> NoCursor,
     unsaved |-> 0, wrote |-> None, status |-> NoName,
     began |-> Absent, merged |-> Absent, cleared |-> FALSE, aggregated |-> FALSE]

\* what a harness around the page request records of a response
Answer(response, queried_page_ids) ==
    [ok |-> TRUE,
     fresh |-> \E id \in Range(response.results) : id \notin queried_page_ids,
     next_cursor |-> response.next_cursor]

\* the count of responses in a row without a new record, after one more
Stale(count, answer) == IF answer.fresh THEN 0 ELSE Min(count + 1, 2)

BoIdle == [attempt |-> 0, called |-> FALSE, slept |-> 0]
PdIdle == [results |-> <<>>, lookups |-> [p \in ParentIds |-> "json"],
           called |-> FALSE, out |-> None,
           phase |-> "idle", first |-> None, names |-> <<>>, order |-> <<>>]

\* the page objects process_data is tried on in its own scenario
RecordChoices ==
    {[parent |-> p, mins |-> m, title |-> "r"] : p \in ParentIds, m \in 1..MaxMins}
    \cup {[parent |-> NoName, mins |-> m, title |-> "r"] : m \in 1..MaxMins}
    \cup {[parent |-> NoName, mins |-> 1, title |-> "s"],
          [parent |-> NoName, mins |-> NoNumber, title |-> "r"],
          [parent |-> NoName, mins |-> 1, title |-> ""]}

InitFiles ==
    /\ progress_file = Absent
    /\ csv_file = Absent
    /\ session_state = SessionDefaults
    /\ pc = "idle"
    /\ gv = GvIdle
    /\ nd = NdIdle
    /\ obs = ObsIdle

InitApp ==
    /\ scenario = "app"
    /\ module \in {"Visualization", "test"}
    /\ remote \in {"any", "stagnant", "chain", "unlimited"}
    /\ rt = RtIdle /\ bo = BoIdle /\ pd = PdIdle

InitSmartRetry ==
    /\ scenario = "smart_retry"
    /\ module = "Visualization" /\ remote = "none"
    /\ rt = SmartRetryStart("stub") /\ bo = BoIdle /\ pd = PdIdle

InitBackoff ==
    /\ scenario = "exponential_backoff"
    /\ module = "Visualization" /\ remote = "none"
    /\ rt = RtIdle /\ pd = PdIdle
    /\ bo \in {[BoIdle EXCEPT !.attempt = a] : a \in 0..MaxAttemptArg}

InitProcessData ==
    /\ scenario = "process_data"
    /\ module \in {"Visualization", "test"} /\ remote = "none"
    /\ rt = RtIdle /\ bo = BoIdle
    /\ pd \in {[PdIdle EXCEPT !.results = rs, !.lookups = [PdIdle.lookups EXCEPT !["pA"] = k]] :
                 rs \in SeqsUpTo(RecordChoices, MaxRecords), k \in LookupKinds}

\* the page objects of the gather scenario
GatherRecords ==
    {[parent |-> p, mins |-> 1, title |-> "r"] : p \in ParentIds}
    \cup {[parent |-> NoName, mins |-> 2, title |-> "r"]}

InitGather ==
    /\ scenario = "gather"
    /\ module \in {"Visualization", "test"} /\ remote = "none"
    /\ rt = RtIdle /\ bo = BoIdle
    /\ pd \in {[PdIdle EXCEPT !.results = rs, !.lookups = [PdIdle.lookups EXCEPT !["pA"] = k]] :
                 rs \in SeqsUpTo(GatherRecords, MaxTasks), k \in LookupKinds}

Init ==
    /\ InitFiles
    /\ (InitApp \/ InitSmartRetry \/ InitBackoff \/ InitProcessData \/ InitGather)

(***************************************************************************)
(* The Streamlit script                                                    *)
(***************************************************************************)
\* The "Generate Visualization" button.  Visualization.py offers it only while
\* data/habits.csv does not exist; both scripts hide it while show_loader is set.
\* The click sets show_loader and enters generate_visualization; in test.py
\* a progress file that json.load cannot read raises out of it into the
\* script's except clause (st.error, show_loader reset).
ClickGenerate ==
    /\ scenario = "app" /\ pc \in {"idle", "done"}
    /\ ~session_state.show_loader
    /\ module = "Visualization" => ~csv_file.exists
    /\ nd' = NdIdle
    /\ IF module = "test" /\ LoadRaises(progress_file)
       THEN /\ session_state' = [session_state EXCEPT !.show_loader = FALSE]
            /\ gv' = GvIdle
            /\ pc' = "done"
            /\ obs' = [ObsIdle EXCEPT !.status = "error", !.cleared = obs.cleared]
       ELSE /\ session_state' = [session_state EXCEPT !.show_loader = TRUE]
            /\ gv' = GvEnter(module, progress_file)
            /\ pc' = "gv_while"
            /\ obs' = [ObsIdle EXCEPT !.resumed = (module = "test" /\ progress_file.exists),
                                      !.began = progress_file,
                                      !.due = GvEnter(module, progress_file).start_cursor,
                                      !.cleared = obs.cleared]
    /\ UNCHANGED <<scenario, module, remote, progress_file, csv_file, rt, bo, pd>>

\* The "Re-FETCH" button of Visualization.py, offered while data/habits.csv
\* exists: clear_progress_and_regenerate()
clear_progress_and_regenerate ==
    /\ scenario = "app" /\ pc \in {"idle", "done"}
    /\ module = "Visualization"
    /\ csv_file.exists
    /\ progress_file' = Absent
    /\ session_state' = [show_loader |-> TRUE, csv_checked |-> FALSE, data_table |-> None]
    /\ obs' = [obs EXCEPT !.cleared = TRUE]
    /\ UNCHANGED <<scenario, module, remote, csv_file, pc, gv, nd, rt, bo, pd>>

\* The process is terminated and the script started again: the session and
\* the run are gone, the files stay.
Kill ==
    /\ scenario = "app"
    /\ pc # "idle" \/ session_state # SessionDefaults
    /\ session_state' = SessionDefaults
    /\ pc' = "idle"
    /\ gv' = GvIdle /\ nd' = NdIdle /\ rt' = RtIdle
    /\ obs' = [ObsIdle EXCEPT !.cleared = obs.cleared]
    /\ UNCHANGED <<scenario, module, remote, progress_file, csv_file, bo, pd>>

\* The process is terminated inside save_progress, after open(..., 'w') and
\* before the document is written out whole.
KillDuringSave ==
    /\ scenario = "app"
    /\ pc = "nd_save" \/ (pc = "gv_data" /\ ~GvStalled(GvTake(gv, nd)))
    /\ progress_file' = Torn
    /\ session_state' = SessionDefaults
    /\ pc' = "idle"
    /\ gv' = GvIdle /\ nd' = NdIdle /\ rt' = RtIdle
    /\ obs' = [ObsIdle EXCEPT !.cleared = obs.cleared]
    /\ UNCHANGED <<scenario, module, remote, csv_file, bo, pd>>

(***************************************************************************)
(* The fetch run                                                           *)
(***************************************************************************)
\* while total_retrieved < page_limit: data = await self.get_notion_data(...)
GvWhile ==
    /\ pc = "gv_while"
    /\ IF gv.total_retrieved < page_limit
       THEN /\ nd' = NdEnter(gv.start_cursor, gv.total_retrieved, gv.queried_page_ids)
            /\ pc' = "nd_while"
       ELSE /\ nd' = nd
            /\ pc' = "gv_process"
    /\ UNCHANGED <<scenario, module, remote, progress_file, csv_file, session_state,
                   gv, rt, bo, pd, obs>>

\* while has_more: response = await smart_retry(self.fetch, ...); after the
\* loop, return
NdWhile ==
    /\ pc = "nd_while"
    /\ IF nd.has_more
       THEN /\ rt' = SmartRetryStart("fetch")
            /\ pc' = "nd_fetch"
       ELSE /\ rt' = rt
            /\ pc' = "gv_data"
    /\ obs' = [obs EXCEPT !.http = NoName, !.answer = None]
    /\ UNCHANGED <<scenario, module, remote, progress_file, csv_file, session_state,
                   gv, nd, bo, pd>>

\* what one call of the wrapped operation can come to: for self.fetch, fetch
\* of whatever the remote answers the query for nd.start_cursor with
Calls ==
    IF rt.func = "fetch"
    THEN {[http |-> h.kind, outcome |-> fetch(h)] :
             h \in Exchanges(remote, nd.start_cursor, nd.queried_page_ids)}
    ELSE {[http |-> StubDid(o), outcome |-> o] : o \in StubOutcomes}

\* smart_retry has ended in r (returned or raised).  Inside get_notion_data
\* control is back in the loop body, which runs on without suspending up to
\* save_progress, a continue, a break or the except clause; an invocation of
\* the smart_retry scenario just ends.
SmartRetryEnds(r, o) ==
    IF r.func = "fetch"
    THEN LET h == HandleResponse(nd, r)
         IN  /\ nd' = h.nd
             /\ pc' = h.next
             /\ rt' = RtIdle
             /\ obs' = [o EXCEPT !.unsaved = IF h.merged THEN @ + 1 ELSE @,
                                  !.merged = IF h.merged
                                             THEN Progress(h.nd.start_cursor, h.nd.page_count,
                                                           h.nd.queried_page_ids)
                                             ELSE @,
                                  !.began = IF h.merged THEN Absent ELSE @,
                                  !.lost = IF h.merged THEN None ELSE @]
    ELSE /\ rt' = r
         /\ obs' = o
         /\ UNCHANGED <<nd, pc>>

\* one iteration of smart_retry's loop: the call, and its return or the
\* except clause that catches what it raised
SmartRetryCall ==
    /\ rt.state = "call"
    /\ \E c \in Calls :
         LET r == IF c.outcome.kind = "return"
                  THEN SmartRetryReturn(rt, c.outcome.value)
                  ELSE SmartRetryExcept(rt, c.outcome.class)
             seen == [obs EXCEPT !.http = c.http,
                                 !.failed = @ \/ (rt.func = "fetch" /\ c.http # "json"),
                                 !.lost = IF rt.func = "fetch" /\ c.http # "json"
                                          THEN [ok |-> TRUE, cursor |-> nd.start_cursor]
                                          ELSE @,
                                 !.answer = IF rt.func = "fetch" /\ c.http = "json"
                                            THEN Answer(c.outcome.value, nd.queried_page_ids)
                                            ELSE None,
                                 !.stale = IF rt.func = "fetch" /\ c.http = "json"
                                           THEN Stale(@, Answer(c.outcome.value,
                                                                nd.queried_page_ids))
                                           ELSE 0,
                                 !.rested = IF rt.func = "fetch" THEN FALSE ELSE @,
                                 !.ahead = IF rt.func = "fetch" /\ c.http = "json"
                                           THEN Min(@ + 1, 2) ELSE @,
                                 !.due = IF rt.func = "fetch" /\ c.http = "json"
                                         THEN c.outcome.value.next_cursor ELSE @]
         IN  IF r.state = "returned"
             THEN SmartRetryEnds(r, seen)
             ELSE /\ rt' = r
                  /\ obs' = seen
                  /\ UNCHANGED <<nd, pc>>
    /\ UNCHANGED <<scenario, module, remote, progress_file, csv_file, session_state,
                   gv, bo, pd>>

\* await exponential_backoff(attempt), then the next iteration or the final raise
SmartRetryBackoff ==
    /\ rt.state = "backoff"
    /\ \E k \in 0..JitterSteps :
         LET r == SmartRetryNext(rt, k)
         IN  IF r.state = "raised"
             THEN SmartRetryEnds(r, obs)
             ELSE /\ rt' = r
                  /\ UNCHANGED <<nd, pc, obs>>
    /\ UNCHANGED <<scenario, module, remote, progress_file, csv_file, session_state,
                   gv, bo, pd>>

\* what a harness around save_progress records of one call: the total written
\* and the length of the run's record list at that moment
Wrote(total_retrieved, records) ==
    [ok |-> TRUE, total_retrieved |-> total_retrieved, records |-> records]

\* save_progress({...}) after a merged page
NdSave ==
    /\ pc = "nd_save"
    /\ progress_file' = save_progress(progress_file,
           Progress(nd.start_cursor, nd.page_count, nd.queried_page_ids))
    /\ pc' = "nd_sleep"
    /\ obs' = [obs EXCEPT !.unsaved = 0, !.ahead = 0,
                          !.wrote = Wrote(nd.page_count,
                                          Len(gv.all_results) + Len(nd.results))]
    /\ UNCHANGED <<scenario, module, remote, csv_file, session_state, gv, nd, rt, bo, pd>>

\* await asyncio.sleep(1)
NdSleep ==
    /\ pc = "nd_sleep"
    /\ pc' = "nd_while"
    /\ obs' = [obs EXCEPT !.rested = TRUE]
    /\ UNCHANGED <<scenario, module, remote, progress_file, csv_file, session_state,
                   gv, nd, rt, bo, pd>>

\* get_notion_data has returned: the rest of generate_visualization's loop body
GvData ==
    /\ pc = "gv_data"
    /\ LET g == GvTake(gv, nd)
       IN  IF GvStalled(g)
           THEN /\ gv' = g
                /\ pc' = "gv_process"
                /\ UNCHANGED <<progress_file, obs>>
           ELSE /\ gv' = [g EXCEPT !.last_total_retrieved = g.total_retrieved]
                /\ progress_file' = save_progress(progress_file,
                       Progress(g.start_cursor, g.total_retrieved, g.queried_page_ids))
                /\ pc' = IF GvFinished(g) THEN "gv_process" ELSE "gv_while"
                /\ obs' = [obs EXCEPT !.unsaved = 0, !.ahead = 0,
                                      !.wrote = Wrote(g.total_retrieved, Len(g.all_results))]
    /\ nd' = NdIdle
    /\ UNCHANGED <<scenario, module, remote, csv_file, session_state, rt, bo, pd>>

\* df = await self.process_data({'results': all_results}), the CSV export and
\* what the script does with what generate_visualization returns: nothing in
\* Visualization.py (df is None: st.error), (chart, df) in test.py; an
\* exception leaves Visualization.py's script and is reported by test.py's.
GvProcess ==
    /\ pc = "gv_process"
    /\ \E k \in LookupKinds :
       \E out \in {process_data(module,
                       [i \in 1..Len(gv.all_results) |-> RecordOf(gv.all_results[i])],
                       [p \in ParentIds |-> Lookup(IF p = "pA" THEN k ELSE "json", p)])} :
         LET raised == out.error # NoName
             table == [ok |-> TRUE, rows |-> out.rows]
         IN  /\ csv_file' = IF raised THEN csv_file
                            ELSE [exists |-> TRUE, rows |-> out.rows]
             /\ session_state' =
                  CASE module # "test" /\ raised -> session_state
                    [] module # "test" /\ ~raised ->
                         [session_state EXCEPT !.show_loader = FALSE]
                    [] module = "test" /\ raised ->
                         [session_state EXCEPT !.show_loader = FALSE]
                    [] OTHER ->
                         [session_state EXCEPT !.show_loader = FALSE,
                                                !.data_table = table]
             /\ obs' = [obs EXCEPT !.status =
                          CASE module # "test" /\ raised -> "exception"
                            [] module # "test" /\ ~raised -> "error"
                            [] module = "test" /\ raised -> "error"
                            [] OTHER -> "success",
                                   !.cleared = IF raised THEN @ ELSE FALSE,
                                   !.aggregated = ~raised,
                                   !.began = Absent, !.merged = Absent,
                                   !.lost = None, !.answer = None, !.stale = 0,
                                   !.rested = FALSE, !.ahead = 0, !.due = NoCursor]
    /\ pc' = "done"
    /\ UNCHANGED <<scenario, module, remote, progress_file, gv, nd, rt, bo, pd>>

(***************************************************************************)
(* The scenarios of the pure functions                                     *)
(***************************************************************************)
\* await exponential_backoff(bo.attempt)
BackoffCall ==
    /\ scenario = "exponential_backoff"
    /\ ~bo.called
    /\ \E k \in 0..JitterSteps :
         bo' = [bo EXCEPT !.called = TRUE, !.slept = exponential_backoff(bo.attempt, k)]
    /\ UNCHANGED <<scenario, module, remote, progress_file, csv_file, session_state,
                   pc, gv, nd, rt, pd, obs>>

\* await self.process_data({'results': pd.results})
ProcessDataCall ==
    /\ scenario = "process_data"
    /\ ~pd.called
    /\ pd' = [pd EXCEPT !.called = TRUE,
                        !.out = process_data(module, pd.results,
                                    [p \in ParentIds |-> Lookup(pd.lookups[p], p)])]
    /\ UNCHANGED <<scenario, module, remote, progress_file, csv_file, session_state,
                   pc, gv, nd, rt, bo, obs>>

\* process_data up to await asyncio.gather(*tasks): the first loop has made
\* the get_page_name coroutines, gather schedules them all
GatherStart ==
    /\ scenario = "gather"
    /\ pd.phase = "idle"
    /\ \E st \in {CollectLoop(module, pd.results, Len(pd.results))} :
         pd' = [pd EXCEPT !.phase = "gather", !.first = st,
                          !.names = [i \in 1..Len(st.tasks) |-> NoName]]
    /\ UNCHANGED <<scenario, module, remote, progress_file, csv_file, session_state,
                   pc, gv, nd, rt, bo, obs>>

\* one of the pending get_page_name coroutines returns
LookupCompletes ==
    /\ scenario = "gather"
    /\ pd.phase = "gather"
    /\ \E i \in 1..Len(pd.names) :
         /\ pd.names[i] = NoName
         /\ pd' = [pd EXCEPT !.names[i] = get_page_name(Lookup(pd.lookups[pd.first.tasks[i]],
                                                                pd.first.tasks[i])),
                              !.order = Append(@, i)]
    /\ UNCHANGED <<scenario, module, remote, progress_file, csv_file, session_state,
                   pc, gv, nd, rt, bo, obs>>

\* every coroutine has returned: gather returns parent_names, and the second
\* loop, the sort and the return follow without suspending
GatherReturns ==
    /\ scenario = "gather"
    /\ pd.phase = "gather"
    /\ Len(pd.order) = Len(pd.names)
    /\ pd' = [pd EXCEPT !.phase = "done", !.called = TRUE,
                        !.out = AfterGather(pd.first, Gathered(pd.names, pd.order))]
    /\ UNCHANGED <<scenario, module, remote, progress_file, csv_file, session_state,
                   pc, gv, nd, rt, bo, obs>>

Next ==
    \/ ClickGenerate
    \/ clear_progress_and_regenerate
    \/ Kill
    \/ KillDuringSave
    \/ GvWhile
    \/ NdWhile
    \/ SmartRetryCall
    \/ SmartRetryBackoff
    \/ NdSave
    \/ NdSleep
    \/ GvData
    \/ GvProcess
    \/ BackoffCall
    \/ ProcessDataCall
    \/ GatherStart
    \/ LookupCompletes
    \/ GatherReturns

Spec == Init /\ [][Next]_vars

\* The event loop runs the fetch run's coroutine for as long as the process lives.
RunStep ==
    \/ GvWhile \/ NdWhile \/ SmartRetryCall \/ SmartRetryBackoff
    \/ NdSave \/ NdSleep \/ GvData \/ GvProcess

FairSpec == Init /\ [][Next]_vars /\ WF_vars(RunStep)

(***************************************************************************)
(* Properties                                                              *)
(***************************************************************************)
NoDuplicates(s) == \A i, j \in 1..Len(s) : s[i] = s[j] => i = j

\* the records of this run so far: those of the finished passes and of the
\* pass in progress
RunRecords == gv.all_results \o nd.results

\* C1 (idempotent merge): whatever pages the remote delivered, repeated ids
\* and ids repeated inside one page included, the final record list of a run
\* holds each record id once.
C1_IdempotentMerge ==
    (scenario = "app" /\ pc = "done") => NoDuplicates(gv.all_results)

\* the ids of the chain remote's database
ChainIds == 1..(ChainPages * ChainPageLen)

\* A run from the start that nothing interrupts and no request fails in
\* fetches the whole database of the chain remote.
UninterruptedRunFetchesAll ==
    (scenario = "app" /\ remote = "chain" /\ pc = "done"
        /\ ~obs.failed /\ ~obs.resumed)
    => Range(gv.all_results) = ChainIds

\* C2 (resumability): against the chain remote, a run started from a
\* checkpoint an earlier run wrote, and in which no request fails, ends with
\* the record set of an uninterrupted run from the start (the whole database).
C2_Resumability ==
    (scenario = "app" /\ remote = "chain" /\ pc = "done" /\ ~obs.failed)
    => Range(gv.all_results) = ChainIds

\* C3 (stagnation termination): against a remote that from now on returns
\* only records already seen, with a next cursor, the run comes to an end.
C3_StagnationTerminates ==
    (remote = "stagnant" /\ pc = "nd_fetch" /\ nd.queried_page_ids # {})
    ~> (pc \in {"done", "idle"})

\* C4 (page-limit stop): against the unlimited remote the run never holds
\* more than page_limit records, no checkpoint above page_limit is written,
\* and the checkpoint of the finished run says page_limit.
C4_PageLimitStop ==
    (scenario = "app" /\ remote = "unlimited")
    => /\ nd.page_count <= page_limit
       /\ progress_file.exists => progress_file.total_retrieved <= page_limit
       /\ pc = "done" => (progress_file.exists
                          /\ progress_file.total_retrieved = page_limit)

\* C5 (retry exhaustion): when every call raised a rate-limit failure,
\* smart_retry raises after exactly MAX_RETRIES calls and MAX_RETRIES - 1
\* backoff sleeps.
C5_RetryExhaustion ==
    (scenario = "smart_retry" /\ rt.state = "raised" /\ rt.all429)
    => (rt.calls = MAX_RETRIES /\ rt.sleeps = MAX_RETRIES - 1)

\* C6 (backoff bound): every delay exponential_backoff sleeps, for any
\* attempt and any jitter draw, lies between INITIAL_RETRY_DELAY and
\* 1.1 * MAX_RETRY_DELAY.
DelayInBounds(ticks) ==
    /\ INITIAL_RETRY_DELAY * TicksPerSecond <= ticks
    /\ 10 * ticks <= 11 * MAX_RETRY_DELAY * TicksPerSecond
C6_BackoffBound ==
    /\ bo.called => DelayInBounds(bo.slept)
    /\ rt.sleeps > 0 => DelayInBounds(rt.slept)
\* a capped delay with the largest jitter has been slept
C6_Witness ==
    /\ bo.called /\ bo.attempt = MaxAttemptArg
    /\ 10 * bo.slept = 11 * MAX_RETRY_DELAY * TicksPerSecond

\* The total process_data's rows give category name n, and the sum of the
\* measures of the records whose parent resolves to n.
RowTotal(rows, n) ==
    SumSeq([i \in 1..Len(rows) |-> IF rows[i].key = n THEN rows[i].value ELSE 0])
ResolvedName(parent_id) == get_page_name(Lookup(pd.lookups[parent_id], parent_id))
ExpectedTotal(results, n) ==
    SumSeq([i \in 1..Len(results) |->
               IF results[i].parent # NoName /\ ResolvedName(results[i].parent) = n
               THEN TotalMins(results[i]) ELSE 0])
\* the rows that are no resolved category, and the measures of the records
\* without a parent
CategoryNames == Starred \cup {"Unknown"}
UncategorizedTotal(rows) ==
    SumSeq([i \in 1..Len(rows) |->
               IF rows[i].key \in CategoryNames THEN 0 ELSE rows[i].value])
ExpectedUncategorized(results) ==
    SumSeq([i \in 1..Len(results) |->
               IF results[i].parent = NoName THEN TotalMins(results[i]) ELSE 0])

\* C7 (aggregation correctness): each category's total is the sum of the
\* measures of the records whose parent resolves to it, and the records
\* without a parent add up under the uncategorized rows.
C7_AggregationCorrect ==
    (scenario = "process_data" /\ pd.called /\ pd.out.error = NoName)
    => /\ \A n \in Starred : RowTotal(pd.out.rows, n) = ExpectedTotal(pd.results, n)
       /\ UncategorizedTotal(pd.out.rows) = ExpectedUncategorized(pd.results)

\* In a run that did not start from a progress file, every save_progress
\* call writes the length of the run's record list.
FreshRunWritesListLength ==
    (obs.wrote.ok /\ ~obs.resumed) => obs.wrote.total_retrieved = obs.wrote.records

\* C8: at every save_progress call, resumed runs included, the
\* total_retrieved written is the length of the run's record list.
C8_WrittenCountIsListLength ==
    obs.wrote.ok => obs.wrote.total_retrieved = obs.wrote.records

\* C9 (checkpoint before next request): at most one merged page is ever
\* missing from the progress file, and while a page request is in flight none
\* is: the file holds the count and the ids of everything this run merged.
C9_CheckpointBeforeNextRequest ==
    scenario = "app"
    => /\ obs.unsaved <= 1
       /\ pc = "nd_fetch" =>
            /\ obs.unsaved = 0
            /\ RunRecords # <<>> =>
                 /\ progress_file.exists
                 /\ progress_file.total_retrieved = nd.page_count
                 /\ progress_file.queried_page_ids = nd.queried_page_ids
\* a request is in flight after this pass has merged a page
C9_Witness ==
    pc = "nd_fetch" /\ nd.results # <<>> /\ progress_file.exists

\* C10 (rate-limit retry): when a page request is answered 429 and attempts
\* are left, smart_retry backs off to try the same request again; control
\* does not return to the paginator.
C10_RateLimitRetried ==
    [][(rt.state = "call" /\ rt.func = "fetch" /\ obs'.http = "429"
          /\ rt.attempt + 1 < MAX_RETRIES)
       => (rt'.state = "backoff" /\ pc' = "nd_fetch" /\ nd' = nd)]_vars

\* C11 (failure preserves the checkpoint): once a run in which a page request
\* failed has left its fetch loop, the progress file is the checkpoint of the
\* last page the run merged (its next cursor, count and ids), and the file the
\* run found when it merged none.
C11_FailurePreservesCheckpoint ==
    (scenario = "app" /\ pc = "gv_process" /\ obs.failed)
    => progress_file = IF obs.merged.exists THEN obs.merged ELSE obs.began

\* What a failed run does keep: the count and the ids of the last merged page.
FailureKeepsCountAndIds ==
    (scenario = "app" /\ pc = "gv_process" /\ obs.failed /\ obs.merged.exists)
    => /\ progress_file.exists
       /\ progress_file.total_retrieved = obs.merged.total_retrieved
       /\ progress_file.queried_page_ids = obs.merged.queried_page_ids

\* the cursor, count and ids a run starts paginating from
StartOf(g) == Progress(g.start_cursor, g.total_retrieved, g.queried_page_ids)

\* a run has just been started and has not yet called get_notion_data
RunStarts == scenario = "app" /\ pc = "gv_while" /\ gv.last_total_retrieved = 0

\* C12 (checkpoint read at the start): every fetch run starts paginating from
\* the cursor, count and seen ids of the persisted checkpoint, or from the
\* defaults when there is none.
C12_RunStartsFromCheckpoint ==
    RunStarts => StartOf(gv) = load_progress(progress_file)

\* C13 (load_progress): where a run calls load_progress, it gets the defaults
\* when no progress file exists and the file's checkpoint otherwise, and the
\* file is as it was before the call.
C13_LoadProgress ==
    (RunStarts /\ module = "test")
    => /\ StartOf(gv) = IF obs.began.exists THEN obs.began ELSE DefaultProgress
       /\ progress_file = obs.began
\* a run has loaded a checkpoint an earlier run wrote
C13_Witness ==
    RunStarts /\ module = "test" /\ obs.began.exists /\ gv.total_retrieved > 0

\* C14 (save overwrites): after every save_progress call, the first of a run
\* and those over an existing file alike, load_progress gives exactly the
\* checkpoint that call was handed.
C14_SaveOverwrites ==
    /\ pc = "nd_sleep" =>
         load_progress(progress_file)
           = Progress(nd.start_cursor, nd.page_count, nd.queried_page_ids)
    /\ (pc = "gv_while" /\ gv.last_total_retrieved > 0) =>
         load_progress(progress_file) = StartOf(gv)
\* the second save of a run has replaced the checkpoint of its first
C14_Witness ==
    /\ remote = "chain" /\ pc = "nd_sleep"
    /\ nd.page_count = 2 * ChainPageLen
    /\ progress_file.total_retrieved = 2 * ChainPageLen

\* After clear_progress_and_regenerate, in the same session, no progress file
\* exists and the exported table is not rendered.
ClearedInSession ==
    (scenario = "app" /\ module = "Visualization" /\ ~session_state.csv_checked)
    => (~progress_file.exists /\ ~Rendered(session_state, csv_file))

\* C15 (clear/regenerate): from clear_progress_and_regenerate until a fetch
\* has written a new data/habits.csv, no checkpoint is persisted and the
\* rendering layer does not show the exported table.
C15_ClearInvalidates ==
    (scenario = "app" /\ obs.cleared)
    => (~progress_file.exists /\ ~Rendered(session_state, csv_file))

\* what C16 asks of the status a finished run was reported with
StatusIsRight ==
    /\ (~obs.failed /\ obs.aggregated) => obs.status = "success"
    /\ obs.status \in {"error", "exception"} => (obs.failed \/ ~obs.aggregated)

\* The script of test.py reports the status C16 asks for.
TestScriptStatusIsRight ==
    (scenario = "app" /\ module = "test" /\ pc = "done") => StatusIsRight

\* C16 (final status): a run in which no request failed and process_data
\* returned is reported as a success, and a run is reported as failed only
\* when a request failed or process_data raised.
C16_FinalStatus ==
    (scenario = "app" /\ pc = "done") => StatusIsRight

\* The bucket names in the order the aggregation comes across them: those of
\* the records without a parent in its first pass, then the resolved names of
\* the parents in the order of their records.
BucketOf(mod, result) == IF mod = "test" THEN "No Parent" ELSE result.title
EncounterOrder(mod, results) ==
    LET without == SelectSeq(results, LAMBDA r : r.parent = NoName)
        with    == SelectSeq(results, LAMBDA r : r.parent # NoName)
    IN  [i \in 1..Len(without) |-> BucketOf(mod, without[i])]
        \o [i \in 1..Len(with) |-> ResolvedName(with[i].parent)]
FirstEncounter(names, n) == CHOOSE i \in 1..Len(names) :
    names[i] = n /\ \A j \in 1..(i - 1) : names[j] # n

\* C17 (sorted output): the rows of process_data are in descending order of
\* total, and rows of equal total are in the order in which the aggregation
\* first came across their categories.
C17_SortedStable ==
    (scenario = "process_data" /\ pd.called /\ pd.out.error = NoName)
    => LET rows == pd.out.rows
           names == EncounterOrder(module, pd.results)
       IN  \A i, j \in 1..Len(rows) :
             i < j => /\ rows[i].value >= rows[j].value
                      /\ rows[i].value = rows[j].value
                           => FirstEncounter(names, rows[i].key)
                                < FirstEncounter(names, rows[j].key)
\* three rows, the first above two of equal total
C17_Witness ==
    /\ scenario = "process_data" /\ pd.called /\ pd.out.error = NoName
    /\ Len(pd.out.rows) = 3
    /\ pd.out.rows[1].value > pd.out.rows[2].value
    /\ pd.out.rows[2].value = pd.out.rows[3].value

\* A process_data call in which the lookup of parent pA failed (the request
\* failed, or the name carries no '*') for at least one record, and what the
\* same call gives when every lookup succeeds.
LookupFails ==
    /\ scenario = "process_data" /\ pd.called
    /\ pd.lookups["pA"] # "json"
    /\ \E i \in 1..Len(pd.results) : pd.results[i].parent = "pA"
WithGoodLookups ==
    process_data(module, pd.results, [p \in ParentIds |-> Lookup("json", p)])
OtherNames == {"B*", "No Parent", "r", "s"}

\* A failed lookup raises nothing in process_data, and the rows of the other
\* categories are what they are when the lookup succeeds.
FailedLookupKeepsOtherRows ==
    LookupFails
    => /\ pd.out.error = WithGoodLookups.error
       /\ \A n \in OtherNames :
            RowTotal(pd.out.rows, n) = RowTotal(WithGoodLookups.rows, n)

\* C18 (resolution failure recovered locally): a failed lookup does not abort
\* process_data, leaves the rows of the other categories as they are, and the
\* measures of the records it affects add up under "Unknown" (or are dropped).
C18_LookupFailureLocal ==
    (LookupFails /\ pd.out.error = NoName)
    => /\ \A n \in OtherNames :
            RowTotal(pd.out.rows, n) = RowTotal(WithGoodLookups.rows, n)
       /\ RowTotal(pd.out.rows, "Unknown")
            \in {0, ExpectedTotal(pd.results, "Unknown")}

\* C19 (exhaustion surfaces to the caller): once the request for a page has
\* ended without a response, the run issues no further request for that page.
C19_NoRequestAfterFailure ==
    (scenario = "app" /\ obs.lost.ok /\ pc = "nd_fetch")
    => nd.start_cursor # obs.lost.cursor

\* The step of get_notion_data that takes a page response none of whose
\* records is new.
StagnationStep ==
    /\ scenario = "app" /\ pc = "nd_fetch"
    /\ obs'.answer.ok /\ ~obs'.answer.fresh

\* C20 (stagnation step): a page response without a new record changes the
\* cursor and nothing else: the record list, the count, the seen ids and the
\* progress file stay; the loop goes on with the offered cursor, and
\* get_notion_data returns when none is offered.
C20_StagnationFrame ==
    [][StagnationStep
       => /\ nd'.results = nd.results
          /\ nd'.page_count = nd.page_count
          /\ nd'.queried_page_ids = nd.queried_page_ids
          /\ progress_file' = progress_file
          /\ gv' = gv
          /\ nd'.start_cursor = obs'.answer.next_cursor
          /\ nd'.has_more
          /\ pc' = IF obs'.answer.next_cursor = NoCursor THEN "gv_data" ELSE "nd_while"]_vars
\* after a merged page, a response without a new record that offers a cursor
C20_Witness ==
    /\ scenario = "app" /\ pc = "nd_while"
    /\ obs.answer.ok /\ ~obs.answer.fresh
    /\ nd.results # <<>>
    /\ nd.start_cursor # NoCursor
\* a response without a new record that offers no cursor has ended the pass
StagnationStops ==
    /\ scenario = "app" /\ pc = "gv_data"
    /\ obs.answer.ok /\ ~obs.answer.fresh
    /\ nd.results # <<>>
    /\ nd.start_cursor = NoCursor

\* C21 (no progress twice in a row): after two page responses in a row that
\* held no new record, the run issues no further page request.
C21_StopsAfterTwoStalePages ==
    (scenario = "app" /\ obs.stale = 2) => pc \notin {"nd_while", "nd_fetch", "gv_while"}

\* The last page response of the run offered no next cursor.
NoCursorOffered == scenario = "app" /\ obs.answer.ok /\ obs.answer.next_cursor = NoCursor
\* get_notion_data is at the head of its loop and goes on to a request
AboutToRequest == pc = "nd_while" /\ nd.has_more

\* C22 (exhaustion stop): once a page response offered no next cursor, the
\* run goes on to no further page request, whatever has_more said.
C22_NoRequestWithoutCursor ==
    NoCursorOffered
    => /\ ~AboutToRequest
       /\ ~(pc = "gv_while" /\ gv.total_retrieved < page_limit)
\* generate_visualization itself does stop on a missing cursor
CallerStopsWithoutCursor ==
    NoCursorOffered => ~(pc = "gv_while" /\ gv.total_retrieved < page_limit)

\* After a page that was merged, the next request of the same get_notion_data
\* call comes after asyncio.sleep(1).
SleepAfterMergedPage ==
    (scenario = "app" /\ AboutToRequest /\ obs.answer.ok /\ obs.answer.fresh
       /\ nd.results # <<>>) => obs.rested

\* C23 (inter-page delay): a page request that follows a page response of the
\* same pass comes after the inter-page sleep, whether the page held new
\* records or not.
C23_SleepBetweenPages ==
    (scenario = "app" /\ AboutToRequest /\ obs.answer.ok) => obs.rested

\* the delays exponential_backoff(attempt) may sleep
BackoffDelays(attempt) == {exponential_backoff(attempt, k) : k \in 0..JitterSteps}

\* C24 (failure-agnostic retry): whatever the calls of smart_retry raised,
\* every raise took one attempt and was followed by one sleep of
\* exponential_backoff(attempt) for the index of the attempt that raised; the
\* loop is left by a return or after MAX_RETRIES attempts only.
C24_RetriedIdentically ==
    rt.state # "idle"
    => /\ rt.sleeps = rt.attempt
       /\ rt.calls = rt.attempt + (IF rt.state \in {"backoff", "returned"} THEN 1 ELSE 0)
       /\ rt.sleeps > 0 => rt.slept \in BackoffDelays(rt.attempt - 1)
       /\ rt.state = "raised" => rt.attempt = MAX_RETRIES
\* a third attempt comes up after a timeout and a failure that was no rate limit
C24_Witness ==
    /\ scenario = "smart_retry" /\ rt.state = "call" /\ rt.attempt = 3
    /\ rt.raised = "other" /\ ~rt.all429
    /\ rt.slept \in BackoffDelays(2)

\* the level the failure classes are to be logged at: warning for a rate
\* limit and for a gateway failure, error for the rest
SeverityOf(c) == IF c \in {"429", "502", "504"} THEN "warning" ELSE "error"

\* 504 and 429 are logged as warnings, timeouts and other exceptions as errors
SeverityRightBut502 ==
    (rt.state = "backoff" /\ rt.raised # "502") => rt.log = SeverityOf(rt.raised)

\* C25 (log severity): smart_retry logs a 429, a 502 and a 504 at warning
\* level and every other failure at error level.
C25_LogSeverity ==
    rt.state = "backoff" => rt.log = SeverityOf(rt.raised)

\* the parent ids the records refer to, and the records that have a parent
ReferencedParents(results) ==
    {results[i].parent : i \in {j \in 1..Len(results) : results[j].parent # NoName}}
RecordsWithParent(results) ==
    Cardinality({i \in 1..Len(results) : results[i].parent # NoName})

\* process_data calls get_page_name once for every record that has a parent
OneLookupPerRecord ==
    (scenario = "process_data" /\ pd.called /\ pd.out.error = NoName)
    => pd.out.lookups = RecordsWithParent(pd.results)

\* C26 (one lookup per distinct id): the number of get_page_name calls of
\* process_data is the number of distinct parent ids among the records.
C26_OneLookupPerDistinctId ==
    (scenario = "process_data" /\ pd.called /\ pd.out.error = NoName)
    => pd.out.lookups = Cardinality(ReferencedParents(pd.results))

\* C27 (fan-out, fan-in): process_data sums nothing while a lookup is
\* pending, and what it returns once all have completed is what the names in
\* the order of the lookups' creation give, whatever the order in which the
\* lookups completed.
C27_JoinInCreationOrder ==
    scenario = "gather"
    => /\ pd.phase = "gather" => ~pd.called
       /\ pd.called
            => /\ Len(pd.order) = Len(pd.first.tasks)
               /\ \A i \in 1..Len(pd.names) : pd.names[i] # NoName
               /\ pd.out = process_data(module, pd.results,
                                        [p \in ParentIds |-> Lookup(pd.lookups[p], p)])
\* process_data has returned after the lookup made second completed first,
\* the two being lookups of different parents
C27_Witness ==
    /\ scenario = "gather" /\ pd.called /\ pd.out.error = NoName
    /\ Len(pd.order) >= 2 /\ pd.order[1] = 2 /\ pd.order[2] = 1
    /\ pd.first.tasks[1] # pd.first.tasks[2]

\* C28 (crash-safe save): whenever the process is terminated, a save in
\* progress included, the progress file is one load_progress can read.
C28_SaveIsAtomic ==
    scenario = "app" => ~LoadRaises(progress_file)

\* Against a database that serves every record once, a run that did not
\* start from a progress file is never more than one page ahead of the file.
FreshRunOnePageAhead ==
    (scenario = "app" /\ remote = "chain" /\ ~obs.resumed) => obs.ahead <= 1

\* C29 (crash and resume): against a database that serves every record once,
\* at every point of a run, resumed ones included, at most one page the run
\* has fetched is not behind the cursor of the progress file, so that a run
\* resumed from the file requests at most one page over again.
C29_AtMostOnePageToRefetch ==
    (scenario = "app" /\ remote = "chain") => obs.ahead <= 1

\* C30 (checkpoints grow): a save_progress call of a run that has saved
\* before writes a total_retrieved that is not below, and queried_page_ids
\* that include, those of the write before it.
C30_WritesGrow ==
    [][(scenario = "app" /\ pc \in {"nd_save", "gv_data"} /\ pc' # "idle"
          /\ obs.wrote.ok /\ progress_file.exists)
       => /\ progress_file'.exists
          /\ progress_file'.total_retrieved >= obs.wrote.total_retrieved
          /\ progress_file'.total_retrieved >= progress_file.total_retrieved
          /\ progress_file.queried_page_ids \subseteq progress_file'.queried_page_ids]_vars
\* a run of test.py resumed from a progress file has saved a second page
C30_Witness ==
    /\ scenario = "app" /\ remote = "chain" /\ module = "test" /\ obs.resumed
    /\ pc = "nd_sleep" /\ Len(nd.results) = 2 * ChainPageLen
    /\ obs.wrote.ok /\ obs.wrote.total_retrieved = progress_file.total_retrieved

\* get_notion_data is running or has just returned: its locals are live
InPass == pc \in {"nd_while", "nd_fetch", "nd_save", "nd_sleep", "gv_data"}

\* C31 (seen ids cover the record list): in every state of a run the seen ids
\* hold the id of every record of the run's record list, inside
\* get_notion_data (its results and its queried_page_ids, with the records of
\* the passes before) and in generate_visualization between the passes.
C31_SeenIdsCoverRecords ==
    scenario = "app"
    => /\ Range(gv.all_results) \subseteq gv.queried_page_ids
       /\ InPass => Range(RunRecords) \subseteq nd.queried_page_ids
\* a later pass of a run has merged a page on top of the records of the
\* passes before
C31_Witness ==
    /\ scenario = "app" /\ pc = "nd_save"
    /\ gv.all_results # <<>> /\ nd.results # <<>>
    /\ Range(nd.results) \cap Range(gv.all_results) = {}

\* the delay before jitter after the failure of index i (the first failure
\* has index 0): 5, 10, 20, 40, 80, 160 seconds, and MAX_RETRY_DELAY from the
\* seventh failure on
SuccessiveDelay(i) ==
    IF i < 6 THEN INITIAL_RETRY_DELAY * 2^i ELSE MAX_RETRY_DELAY
\* a sleep of delay seconds plus a jitter between 0 and a tenth of it
SleptFor(ticks, delay) ==
    /\ delay * TicksPerSecond <= ticks
    /\ 10 * ticks <= 11 * delay * TicksPerSecond

\* C32 (backoff formula): exponential_backoff(attempt) sleeps
\* min(MAX_RETRY_DELAY, INITIAL_RETRY_DELAY * 2^attempt) plus a jitter of at
\* most a tenth of it; smart_retry passes the zero-based index of the attempt
\* that failed, so that its delays are 5, 10, 20, ..., never go down and are
\* MAX_RETRY_DELAY from the seventh failure on.
C32_BackoffFormula ==
    /\ bo.called
         => SleptFor(bo.slept, Min(MAX_RETRY_DELAY, INITIAL_RETRY_DELAY * 2^bo.attempt))
    /\ rt.sleeps > 0
         => /\ SleptFor(rt.slept, SuccessiveDelay(rt.sleeps - 1))
            /\ SuccessiveDelay(rt.sleeps - 1) = BackoffDelay(rt.attempt - 1)
            /\ rt.sleeps > 1 => BackoffDelay(rt.attempt - 2) <= BackoffDelay(rt.attempt - 1)
            /\ rt.sleeps >= 7 => BackoffDelay(rt.attempt - 1) = MAX_RETRY_DELAY
\* smart_retry has slept after its seventh failure, the first capped delay,
\* with the largest jitter
C32_Witness ==
    /\ scenario = "smart_retry" /\ rt.sleeps = 7
    /\ 10 * rt.slept = 11 * MAX_RETRY_DELAY * TicksPerSecond

\* the script offers the "Generate Visualization" button: Visualization.py
\* only while data/habits.csv does not exist, both only while show_loader is
\* not set
GenerateOffered ==
    /\ ~session_state.show_loader
    /\ module = "Visualization" => ~csv_file.exists
\* a fetch run is in progress
FetchRuns == pc \notin {"idle", "done"}

\* After clear_progress_and_regenerate no fetch run is ever started: the
\* exported table stays on disk, and with it the script offers Re-FETCH and
\* never the generate button.
NoFetchAfterClear ==
    (scenario = "app" /\ obs.cleared)
    => (~FetchRuns /\ csv_file.exists /\ ~GenerateOffered)

\* C33 (regenerate forces a full re-fetch): from clear_progress_and_regenerate
\* until a fresh table has been produced, a fetch run is in progress or the
\* generate button is offered.
C33_RegenerateRefetches ==
    (scenario = "app" /\ obs.cleared) => (FetchRuns \/ GenerateOffered)

\* a page request is in flight or about to be tried again
RequestPending == rt.func = "fetch" /\ rt.state \in {"call", "backoff"}

\* C34 (cursor chaining): every page request of a run, a retried one and the
\* first of a later pass included, carries the cursor the run started from
\* when no page response has come yet and the next_cursor of the last page
\* response otherwise; generate_visualization holds the same cursor between
\* its passes.
C34_CursorChaining ==
    scenario = "app"
    => /\ RequestPending => nd.start_cursor = obs.due
       /\ pc \in {"nd_while", "nd_save", "nd_sleep", "gv_data"} => nd.start_cursor = obs.due
       /\ pc = "gv_while" => gv.start_cursor = obs.due
\* the request for the last page of the chain remote is in flight, two page
\* responses after the run began
C34_Witness ==
    /\ scenario = "app" /\ remote = "chain" /\ RequestPending
    /\ nd.start_cursor = ChainPages /\ obs.due = ChainPages
    /\ Len(RunRecords) = (ChainPages - 1) * ChainPageLen

\* save_progress has just run in a run that started from the defaults: in
\* get_notion_data after a merged page, or in generate_visualization after a
\* pass that made progress
FreshRunHasSaved ==
    /\ scenario = "app" /\ ~obs.resumed
    /\ pc = "nd_sleep" \/ (pc \in {"gv_while", "gv_process"} /\ gv.last_total_retrieved > 0)
CountIsIdCount(file) == file.total_retrieved = Cardinality(file.queried_page_ids)

\* Against a database that serves every record once, every checkpoint of a
\* run that started from the defaults counts as many records as it holds ids.
UniqueRecordsCountIsIdCount ==
    (FreshRunHasSaved /\ remote \in {"chain", "unlimited"}) => CountIsIdCount(progress_file)

\* C35 (count is the number of ids): at every checkpoint write of a run that
\* started from the empty default checkpoint, total_retrieved is the number
\* of ids in queried_page_ids.
C35_CountIsIdCount ==
    FreshRunHasSaved => CountIsIdCount(progress_file)

\* C36 (first result is returned): in smart_retry, a call that returns ends
\* the loop at once, with one call per attempt made, one sleep per attempt
\* that raised and none after the call that returned, and smart_retry returns
\* what that call returned, None included.
C36_FirstReturnEndsRetry ==
    scenario = "smart_retry"
    => /\ obs.http \in {"payload", "nothing"} => rt.state = "returned"
       /\ rt.state = "returned"
            => /\ rt.calls = rt.attempt + 1 /\ rt.calls <= MAX_RETRIES
               /\ rt.sleeps = rt.calls - 1
               /\ obs.http \in {"payload", "nothing"}
               /\ rt.result = IF obs.http = "payload" THEN Payload ELSE None
\* the third call, after two that raised, returned None and smart_retry
\* returned it
C36_Witness ==
    /\ scenario = "smart_retry" /\ rt.state = "returned"
    /\ rt.calls = 3 /\ rt.sleeps = 2 /\ rt.raised # NoName
    /\ obs.http = "nothing" /\ rt.result = None

\* an iteration of generate_visualization's loop ends without a break: the
\* loop goes on to another get_notion_data call
IterationGoesOn == scenario = "app" /\ pc = "gv_data" /\ pc' = "gv_while"

\* An iteration that goes on has raised total_retrieved when the run started
\* from the defaults, and in a run resumed from a progress file when it is
\* not the first.
LaterIterationsMakeProgress ==
    [][(IterationGoesOn /\ (~obs.resumed \/ gv.last_total_retrieved > 0))
       => gv'.total_retrieved > gv.total_retrieved]_vars

\* C37 (the run loop terminates): every iteration of generate_visualization's
\* loop that does not break leaves total_retrieved above the value the
\* iteration began with, in Visualization.py and in test.py.
C37_IterationsMakeProgress ==
    [][IterationGoesOn => gv'.total_retrieved > gv.total_retrieved]_vars

\* the records the step adds to the results of get_notion_data
Added == SubSeq(nd'.results, Len(nd.results) + 1, Len(nd'.results))

\* The step in which the loop body of get_notion_data raises: a page response
\* with new records has been merged and indexing the title of one of them
\* fails.
RaisesInLoopBody ==
    /\ scenario = "app" /\ pc = "nd_fetch"
    /\ obs'.answer.ok /\ obs'.answer.fresh
    /\ PageNamesRaise(Added)

\* C38 (exceptions stay inside get_notion_data): an exception in the loop
\* body ends the paging and nothing more: get_notion_data returns to
\* generate_visualization, which takes the records, the count, the seen ids
\* and the cursor as they were when the exception came, and get_notion_data
\* writes no checkpoint for that page.
C38_ExceptionEndsPaging ==
    [][/\ RaisesInLoopBody
          => /\ pc' = "gv_data"
             /\ progress_file' = progress_file
             /\ nd'.results = nd.results \o Added
             /\ nd'.page_count = nd.page_count + Len(Added)
             /\ nd'.queried_page_ids = nd.queried_page_ids \cup Range(Added)
             /\ nd'.start_cursor = obs'.answer.next_cursor
             /\ gv' = gv /\ session_state' = session_state /\ obs'.status = NoName
       /\ (scenario = "app" /\ pc = "gv_data" /\ pc' # "idle")
          => /\ gv'.all_results = gv.all_results \o nd.results
             /\ gv'.total_retrieved = nd.page_count
             /\ gv'.queried_page_ids = nd.queried_page_ids
             /\ gv'.start_cursor = nd.start_cursor]_vars
\* get_notion_data has returned after the exception came on the second page
\* of the pass: the progress file is the checkpoint of the first
C38_Witness ==
    /\ scenario = "app" /\ pc = "gv_data"
    /\ obs.answer.ok /\ obs.answer.fresh /\ obs.unsaved = 1
    /\ Len(nd.results) >= 2 /\ PageNamesRaise(nd.results)
    /\ progress_file.exists /\ progress_file.total_retrieved < nd.page_count
    /\ progress_file.queried_page_ids # nd.queried_page_ids

====
